---- MODULE Spec2Model ----
(***************************************************************************)
(* Model of scripts/build-questions.ts: the pipeline that segments the     *)
(* question source and the solution source, reconciles them by id and      *)
(* writes questions.json.  Text is modelled as TLA+ strings over ASCII;    *)
(* every regular expression of the source is a hand-written matcher.       *)
(* An optional value (undefined or null in the source) is the empty tuple  *)
(* <<>>, a present value v is the one-element tuple <<v>>.                 *)
(***************************************************************************)
EXTENDS Integers, Sequences, FiniteSets, TLC

(***************************************************************************)
(* String primitives (JavaScript String / RegExp character classes)        *)
(***************************************************************************)
Ch(s, i) == SubSeq(s, i, i)

Drop(s, n) == SubSeq(s, n + 1, Len(s))

\* \s of a JavaScript regular expression, and the characters trim() strips
WS == {" ", "\t", "\n", "\r"}

\* [\t ] of normalizeSpaces / normalizeTextBlock
Blank == {" ", "\t"}

Digits == {"0", "1", "2", "3", "4", "5", "6", "7", "8", "9"}

UpperAlpha == "ABCDEFGHIJKLMNOPQRSTUVWXYZ"

LowerAlpha == "abcdefghijklmnopqrstuvwxyz"

\* [A-J] of the option-label and letter patterns
LabelLetters == {"A", "B", "C", "D", "E", "F", "G", "H", "I", "J"}

\* [a-z0-9] of the fuzzy-match normalisation
LowerAlphaNum == {Ch(LowerAlpha, i) : i \in 1..26} \cup Digits

\* \w of a JavaScript regular expression
WordChars == {Ch(UpperAlpha, i) : i \in 1..26} \cup LowerAlphaNum \cup {"_"}

\* charCodeAt(0) - "A".charCodeAt(0) for an upper-case letter, -1 otherwise
\* (any other character maps outside every option range)
LetterIndex(c) ==
  IF \E i \in 1..26 : Ch(UpperAlpha, i) = c
    THEN (CHOOSE i \in 1..26 : Ch(UpperAlpha, i) = c) - 1
    ELSE -1

LowerCh(c) ==
  IF \E i \in 1..26 : Ch(UpperAlpha, i) = c
    THEN Ch(LowerAlpha, CHOOSE i \in 1..26 : Ch(UpperAlpha, i) = c)
    ELSE c

UpperCh(c) ==
  IF \E i \in 1..26 : Ch(LowerAlpha, i) = c
    THEN Ch(UpperAlpha, CHOOSE i \in 1..26 : Ch(LowerAlpha, i) = c)
    ELSE c

RECURSIVE ConcatAll(_)
\* the concatenation of a sequence of strings (balanced, to keep evaluation shallow)
ConcatAll(ss) ==
  IF ss = <<>> THEN ""
  ELSE IF Len(ss) = 1 THEN ss[1]
  ELSE ConcatAll(SubSeq(ss, 1, Len(ss) \div 2))
       \o ConcatAll(SubSeq(ss, Len(ss) \div 2 + 1, Len(ss)))

toLowerCase(s) == ConcatAll([i \in 1..Len(s) |-> LowerCh(Ch(s, i))])

toUpperCase(s) == ConcatAll([i \in 1..Len(s) |-> UpperCh(Ch(s, i))])

RECURSIVE SkipSet(_, _)
\* the suffix of s left after the longest prefix of characters in cs
SkipSet(s, cs) == IF s # "" /\ Head(s) \in cs THEN SkipSet(Tail(s), cs) ELSE s

RECURSIVE TrimEnd(_)
TrimEnd(s) ==
  IF s # "" /\ Ch(s, Len(s)) \in WS THEN TrimEnd(SubSeq(s, 1, Len(s) - 1)) ELSE s

trim(s) == TrimEnd(SkipSet(s, WS))

\* s starts with lit, compared case-insensitively (lit is lower case)
StartsWithCI(s, lit) ==
  Len(s) >= Len(lit) /\ toLowerCase(SubSeq(s, 1, Len(lit))) = lit

\* the leading run of decimal digits of s
LeadingDigits(s) == SubSeq(s, 1, Len(s) - Len(SkipSet(s, Digits)))

\* the first index of the character sep in s, 0 when it does not occur
IndexOf(s, sep) ==
  IF \E i \in 1..Len(s) : Ch(s, i) = sep
    THEN CHOOSE k \in 1..Len(s) : Ch(s, k) = sep /\ \A j \in 1..(k - 1) : Ch(s, j) # sep
    ELSE 0

RECURSIVE split(_, _)
\* s.split(sep) for a one-character separator
split(s, sep) ==
  IF IndexOf(s, sep) = 0 THEN <<s>>
  ELSE <<SubSeq(s, 1, IndexOf(s, sep) - 1)>> \o split(Drop(s, IndexOf(s, sep)), sep)

RECURSIVE join(_, _)
join(ss, sep) ==
  IF ss = <<>> THEN ""
  ELSE IF Len(ss) = 1 THEN ss[1]
  ELSE ss[1] \o sep \o join(Tail(ss), sep)

RECURSIVE Number(_)
\* Number(d) for a string of decimal digits
Number(d) ==
  IF d = "" THEN 0
  ELSE Number(SubSeq(d, 1, Len(d) - 1)) * 10
       + (CHOOSE v \in 0..9 : Ch("0123456789", v + 1) = Ch(d, Len(d)))

\* findIndex: the first 1-based index whose element satisfies P, 0 when none
FindIndex(ss, P(_)) ==
  IF \E i \in 1..Len(ss) : P(ss[i])
    THEN CHOOSE i \in 1..Len(ss) : P(ss[i]) /\ \A j \in 1..(i - 1) : ~P(ss[j])
    ELSE 0

\* the elements of a set of integers as an ascending sequence
sortedSeq(S) ==
  [k \in 1..Cardinality(S) |-> CHOOSE i \in S : Cardinality({j \in S : j < i}) = k - 1]

(***************************************************************************)
(* Text Normalizer                                                         *)
(***************************************************************************)
\* .replace(/\r\n?/g, "\n"): a CR becomes LF, the LF of a CR LF pair is dropped
UnifyNewlines(s) ==
  ConcatAll([i \in 1..Len(s) |->
    IF Ch(s, i) = "\r" THEN "\n"
    ELSE IF Ch(s, i) = "\n" /\ i > 1 /\ Ch(s, i - 1) = "\r" THEN ""
    ELSE Ch(s, i)])

\* .replace(/[\t ]+/g, " "): the first character of a run becomes a space, the
\* rest of the run is dropped
CollapseBlanks(s) ==
  ConcatAll([i \in 1..Len(s) |->
    IF Ch(s, i) \in Blank
      THEN IF i > 1 /\ Ch(s, i - 1) \in Blank THEN "" ELSE " "
      ELSE Ch(s, i)])

\* .replace(/ *\n */g, "\n"): a space is dropped when only spaces separate it
\* from a newline before or after it
TrimAroundNewlines(s) ==
  ConcatAll([i \in 1..Len(s) |->
    IF /\ Ch(s, i) = " "
       /\ \/ \E j \in (i + 1)..Len(s) :
               Ch(s, j) = "\n" /\ \A k \in i..(j - 1) : Ch(s, k) = " "
          \/ \E j \in 1..(i - 1) :
               Ch(s, j) = "\n" /\ \A k \in (j + 1)..i : Ch(s, k) = " "
      THEN ""
      ELSE Ch(s, i)])

\* the source also maps U+00A0 to a space; the model's texts are ASCII
normalizeSpaces(t) == trim(CollapseBlanks(t))

normalizeTextBlock(t) == trim(TrimAroundNewlines(CollapseBlanks(UnifyNewlines(t))))

(***************************************************************************)
(* Question Segmenter and Option Parser                                    *)
(***************************************************************************)
\* /^([A-J])[\.)]\s+/ : the length of the match at the start of s, 0 when none
OptionPrefixLen(s) ==
  IF Len(s) >= 3 /\ Ch(s, 1) \in LabelLetters /\ Ch(s, 2) \in {".", ")"}
     /\ Ch(s, 3) \in WS
    THEN Len(s) - Len(SkipSet(Drop(s, 2), WS))
    ELSE 0

isOptionLine(line) == OptionPrefixLen(trim(line)) > 0

\* the label, or <<>> for null
extractOptionLabel(line) ==
  IF isOptionLine(line) THEN <<Ch(trim(line), 1)>> ELSE <<>>

\* Steps of a pattern match.  A match in progress is <<rest>>, the text still
\* to be matched; a failed match is <<>>.
\* \s*
ws0(m) == IF m = <<>> THEN <<>> ELSE <<SkipSet(m[1], WS)>>

\* \s+
ws1(m) ==
  IF m = <<>> \/ m[1] = "" \/ Head(m[1]) \notin WS THEN <<>> ELSE <<SkipSet(m[1], WS)>>

\* \d+
digits1(m) ==
  IF m = <<>> \/ m[1] = "" \/ Head(m[1]) \notin Digits THEN <<>>
  ELSE <<SkipSet(m[1], Digits)>>

\* a literal, case-insensitively
lit(m, word) ==
  IF m # <<>> /\ StartsWithCI(m[1], word) THEN <<Drop(m[1], Len(word))>> ELSE <<>>

\* (\d{1,4})\s*$ : <<digits>> or <<>>
topicId(m) ==
  IF /\ m # <<>>
     /\ Len(LeadingDigits(m[1])) \in 1..4
     /\ SkipSet(SkipSet(m[1], Digits), WS) = ""
    THEN <<LeadingDigits(m[1])>>
    ELSE <<>>

\* /^\s*Topic\s+\d+\s*Question\s*#\s*(\d{1,4})\s*$/i : <<digits>> or <<>>
topicRe(line) ==
  topicId(ws0(lit(ws0(lit(ws0(digits1(ws1(lit(ws0(<<line>>), "topic")))),
                          "question")), "#")))

\* ([1-9]\d{0,3}) was matched as d; s is what follows \s* :  [\]\)\.]\s*(.*)$
startDelim(d, s) ==
  IF /\ Len(d) \in 1..4
     /\ Head(d) # "0"
     /\ s # "" /\ Head(s) \in {"]", ")", "."}
     /\ \A i \in 1..Len(s) : Ch(s, i) \notin {"\n", "\r"}
    THEN <<d, SkipSet(Tail(s), WS)>>
    ELSE <<>>

startDigits(s) == startDelim(LeadingDigits(s), SkipSet(SkipSet(s, Digits), WS))

\* /^\s*([1-9]\d{0,3})\s*[\]\)\.]\s*(.*)$/ : <<digits, rest>> or <<>>
startRe(line) == startDigits(SkipSet(line, WS))

\* the alternation without "three"
chooseWordNoThree(w) ==
  \/ StartsWithCI(w, "two")
  \/ StartsWithCI(w, "all that apply")

\* (two|three|all that apply)
chooseWord(w) ==
  \/ StartsWithCI(w, "two")
  \/ StartsWithCI(w, "three")
  \/ StartsWithCI(w, "all that apply")

\* \s+(two|three|all that apply)
chooseTail(r) == r # "" /\ Head(r) \in WS /\ chooseWord(SkipSet(r, WS))

\* /choose\s+(two|three|all that apply)/i matches at the start of s
chooseMany(s) == StartsWithCI(s, "choose") /\ chooseTail(Drop(s, 6))

\* the type inferred from the question text
inferType(question) ==
  IF \E i \in 1..Len(question) : chooseMany(Drop(question, i - 1))
    THEN "multi" ELSE "single"

RECURSIVE scanBlocks(_, _, _)

\* one non-blank line, with the results of the two header patterns
scanMatch(line, mt, mn, rest, blocks, current) ==
  IF mt # <<>>
    THEN scanBlocks(rest, blocks \o current, <<[id |-> Number(mt[1]), lines |-> <<>>]>>)
  ELSE IF mn # <<>>
    THEN scanBlocks(rest, blocks \o current,
                    <<[id |-> Number(mn[1]), lines |-> <<mn[2]>>]>>)
  ELSE IF current # <<>>
    THEN scanBlocks(rest, blocks, <<[current[1] EXCEPT !.lines = @ \o <<line>>]>>)
  ELSE scanBlocks(rest, blocks, current)

scanLine(line, rest, blocks, current) ==
  IF line = "" THEN scanBlocks(rest, blocks, current)
  ELSE scanMatch(line, topicRe(line), startRe(line), rest, blocks, current)

\* the line loop of splitPdfIntoQuestions: lines left, blocks so far, current
\* block (<<>> for null); returns the blocks in source order
scanBlocks(lines, blocks, current) ==
  IF lines = <<>> THEN blocks \o current
  ELSE scanLine(trim(Head(lines)), Tail(lines), blocks, current)

\* the closure flush: the buffered option is pushed once a label was seen
flush(options, buf, lastLabel) ==
  IF lastLabel # <<>> THEN options \o <<normalizeTextBlock(join(buf, " "))>>
  ELSE options

RECURSIVE parseOptions(_, _, _, _)

parseLine(l, label, rest, options, buf, lastLabel) ==
  IF label # <<>>
    THEN parseOptions(rest, flush(options, buf, lastLabel),
                      <<Drop(l, OptionPrefixLen(l))>>, label)
    ELSE parseOptions(rest, options, buf \o <<l>>, lastLabel)

\* the option loop: rest lines, options so far, buf, lastLabel (<<>> for null)
parseOptions(rest, options, buf, lastLabel) ==
  IF rest = <<>> THEN flush(options, buf, lastLabel)
  ELSE parseLine(Head(rest), extractOptionLabel(Head(rest)), Tail(rest),
                 options, buf, lastLabel)

makeItem(id, question, options) ==
  [id |-> id, question |-> question,
   options |-> IF Len(options) > 0 THEN <<options>> ELSE <<>>,
   type |-> inferType(question)]

\* the block divided at optionStartIdx (1-based, 0 when there is no option line)
divideBlock(id, lines, optionStartIdx) ==
  IF optionStartIdx > 0
    THEN makeItem(id,
                  normalizeTextBlock(join(SubSeq(lines, 1, optionStartIdx - 1), " ")),
                  parseOptions(SubSeq(lines, optionStartIdx, Len(lines)),
                               <<>>, <<>>, <<>>))
    ELSE makeItem(id, normalizeTextBlock(join(lines, " ")), <<>>)

blockToItem(b) == divideBlock(b.id, b.lines, FindIndex(b.lines, isOptionLine))

RECURSIVE insertById(_, _)
\* insert x after every element whose id is <= x.id (stable)
insertById(sorted, x) ==
  IF sorted = <<>> THEN <<x>>
  ELSE IF sorted[Len(sorted)].id <= x.id THEN sorted \o <<x>>
  ELSE insertById(SubSeq(sorted, 1, Len(sorted) - 1), x) \o <<sorted[Len(sorted)]>>

\* a sort that leaves the items in source order
sortByIdSourceOrder(items) == items

RECURSIVE sortById(_)
\* items.sort((a, b) => a.id - b.id), a stable sort
sortById(items) ==
  IF items = <<>> THEN <<>>
  ELSE insertById(sortById(SubSeq(items, 1, Len(items) - 1)), items[Len(items)])

normalizeLines(lines) == [i \in 1..Len(lines) |-> normalizeSpaces(lines[i])]

questionBlocks(pdfText) ==
  scanBlocks(normalizeLines(split(UnifyNewlines(pdfText), "\n")), <<>>, <<>>)

itemsOf(blocks) == [i \in 1..Len(blocks) |-> blockToItem(blocks[i])]

splitPdfIntoQuestions(pdfText) == sortById(itemsOf(questionBlocks(pdfText)))

(***************************************************************************)
(* Solution Segmenter                                                      *)
(***************************************************************************)
\* ([1-9]\d{0,3}) was matched as d; s is what follows it:  \]\s*
solStartDelim(line, d, s) ==
  IF Len(d) \in 1..4 /\ Head(d) # "0" /\ s # "" /\ Head(s) = "]"
    THEN <<d, Len(line) - Len(SkipSet(Tail(s), WS))>>
    ELSE <<>>

\* /^([1-9]\d{0,3})\]\s*/ : <<digits, length of the match>> or <<>>
solStartRe(line) == solStartDelim(line, LeadingDigits(line), SkipSet(line, Digits))

RECURSIVE scanSolutions(_, _, _)

scanSolLine(rawLine, m, rest, out, current) ==
  IF m # <<>>
    THEN scanSolutions(rest, out \o current,
                       <<[id |-> Number(m[1]), lines |-> <<trim(Drop(rawLine, m[2]))>>]>>)
  ELSE IF current # <<>>
    THEN scanSolutions(rest, out, <<[current[1] EXCEPT !.lines = @ \o <<rawLine>>]>>)
  ELSE scanSolutions(rest, out, current)

\* the line loop of splitSolutions: lines left, blocks so far, current block
scanSolutions(lines, out, current) ==
  IF lines = <<>> THEN out \o current
  ELSE scanSolLine(Head(lines), solStartRe(Head(lines)), Tail(lines), out, current)

splitSolutions(raw) == scanSolutions(split(UnifyNewlines(raw), "\n"), <<>>, <<>>)

(***************************************************************************)
(* Answer Extractor                                                        *)
(***************************************************************************)
\* (?:s)? after a match of length n: taken (greedy) or not
correctPlural(s, n, greedy) ==
  IF greedy
    THEN IF Len(s) > n /\ LowerCh(Ch(s, n + 1)) = "s" THEN n + 1 ELSE 0
    ELSE n

\* the length of "correct\s+<word>(?:s)?" at the start of s, 0 when it does
\* not match
CorrectAltLen(s, word, greedy) ==
  IF lit(ws1(lit(<<s>>, "correct")), word) # <<>>
    THEN correctPlural(s, Len(s) - Len(lit(ws1(lit(<<s>>, "correct")), word)[1]), greedy)
    ELSE 0

\* the alternatives of the indicator pattern, in the order the engine tries them
IndicatorAlts(s) ==
  << IF StartsWithCI(s, "ans") THEN 3 ELSE 0,
     IF StartsWithCI(s, "answer") THEN 6 ELSE 0,
     IF StartsWithCI(s, "answers") THEN 7 ELSE 0,
     CorrectAltLen(s, "answer", TRUE),
     CorrectAltLen(s, "answer", FALSE),
     CorrectAltLen(s, "option", TRUE),
     CorrectAltLen(s, "option", FALSE) >>

\* [-:] is next
sepAhead(r) == r # "" /\ Head(r) \in {"-", ":"}

\* the alternative of length k is followed by \s*[-:]
SepFollows(s, k) == k > 0 /\ sepAhead(SkipSet(Drop(s, k), WS))

indicatorEnd(s, alts, hit) ==
  IF hit = 0 THEN 0 ELSE Len(s) - Len(SkipSet(Drop(s, alts[hit]), WS)) + 1

indicatorHit(s, alts) == indicatorEnd(s, alts, FindIndex(alts, LAMBDA k : SepFollows(s, k)))

\* /^(ans|answer|answers|correct\s+answer(?:s)?|correct\s+option(?:s)?)\s*[-:]/i :
\* the length of the match at the start of s, 0 when none
indicatorLen(s) == indicatorHit(s, IndicatorAlts(s))

\* /answer\s*[:\-]/i.test(l)
inlineAnswer(l) ==
  \E i \in 1..Len(l) :
    StartsWithCI(Drop(l, i - 1), "answer") /\ SepFollows(Drop(l, i - 1), 6)

\* the index of the first ":" or "-" of s, Len(s) + 1 when none
FirstSep(s) ==
  IF \E i \in 1..Len(s) : Ch(s, i) \in {":", "-"}
    THEN CHOOSE i \in 1..Len(s) :
           Ch(s, i) \in {":", "-"} /\ \A j \in 1..(i - 1) : Ch(s, j) \notin {":", "-"}
    ELSE Len(s) + 1

pieceBefore(r) == SubSeq(r, 1, FirstSep(r) - 1)

\* l.split(/[:\-]/, 2)[1] ?? ""
secondPiece(l) == pieceBefore(Drop(l, FirstSep(l)))

\* n || undefined
orUndefined(n) == IF n = "" THEN <<>> ELSE <<n>>

\* normalizeTextBlock(lines.slice(from).join("\n")) || undefined   (from is 0-based)
notesFrom(lines, from) ==
  orUndefined(normalizeTextBlock(join(SubSeq(lines, from + 1, Len(lines)), "\n")))

\* the three tiers: indicator line, inline "answer:", first non-blank line
tiers(lines, ansIdx, inlineIdx, firstIdx) ==
  IF ansIdx > 0
    THEN [answer |-> <<normalizeTextBlock(
                         trim(Drop(lines[ansIdx], indicatorLen(lines[ansIdx]))))>>,
          notes  |-> notesFrom(lines, ansIdx)]
  ELSE IF inlineIdx > 0
    THEN [answer |-> <<normalizeTextBlock(secondPiece(lines[inlineIdx]))>>,
          notes  |-> notesFrom(lines, inlineIdx)]
  ELSE [answer |-> IF firstIdx > 0 THEN <<normalizeTextBlock(lines[firstIdx])>> ELSE <<>>,
        notes  |-> notesFrom(lines, 1)]

\* the answer and notes of extractAnswerInfo
answerAndNotes(lines) ==
  tiers(lines,
        FindIndex(lines, LAMBDA l : indicatorLen(trim(l)) > 0),
        FindIndex(lines, inlineAnswer),
        FindIndex(lines, LAMBDA l : Len(trim(l)) > 0))

\* /correct|ans|answer/i.test(l)
related(l) ==
  \E i \in 1..Len(l) :
    \/ StartsWithCI(Drop(l, i - 1), "correct")
    \/ StartsWithCI(Drop(l, i - 1), "ans")
    \/ StartsWithCI(Drop(l, i - 1), "answer")

\* /\b([A-J])\b/ matches at index i of s
isolatedAt(s, i) ==
  /\ Ch(s, i) \in LabelLetters
  /\ (i = 1 \/ Ch(s, i - 1) \notin WordChars)
  /\ (i = Len(s) \/ Ch(s, i + 1) \notin WordChars)

lettersIn(s) == ConcatAll([i \in 1..Len(s) |-> IF isolatedAt(s, i) THEN Ch(s, i) ELSE ""])

\* the matches of /\b([A-J])\b/g in l.toUpperCase(), in order
isolatedLetters(l) == lettersIn(toUpperCase(l))

\* the letters found on the answer-related lines, in order
relatedLetters(lines) ==
  ConcatAll([i \in 1..Len(lines) |->
    IF related(lines[i]) THEN isolatedLetters(lines[i]) ELSE ""])

labelsOf(ls) ==
  ConcatAll([i \in 1..Len(ls) |->
    IF isOptionLine(ls[i]) THEN Ch(trim(ls[i]), 1) ELSE ""])

\* the leading letters of the lines of notes shaped like option labels
noteLabels(notes) == IF notes = <<>> THEN "" ELSE labelsOf(split(notes[1], "\n"))

firstOccurrences(s, keep) ==
  [k \in 1..Cardinality(keep) |-> Ch(s, sortedSeq(keep)[k])]

\* Array.from(new Set(...)): the characters of s, first occurrences only, in order
distinctChars(s) ==
  firstOccurrences(s, {i \in 1..Len(s) : \A j \in 1..(i - 1) : Ch(s, j) # Ch(s, i)})

infoRecord(an, letters) ==
  [answer |-> an.answer, notes |-> an.notes,
   letters |-> IF Len(letters) > 0 THEN <<letters>> ELSE <<>>]

withLetters(lines, an) ==
  infoRecord(an, distinctChars(relatedLetters(lines) \o noteLabels(an.notes)))

extractAnswerInfo(lines) == withLetters(lines, answerAndNotes(lines))

(***************************************************************************)
(* Reconciler                                                              *)
(***************************************************************************)
\* the filter of mapLettersToIndexes lets an index one past the end through
inRangeInclusive(i, n) == i >= 0 /\ i <= n

\* the range test of the filter in mapLettersToIndexes
inRange(i, n) == i >= 0 /\ i < n

\* idxs.length ? Array.from(new Set(idxs)).sort(...) : undefined
keptIndexes(kept) == IF kept = {} THEN <<>> ELSE <<sortedSeq(kept)>>

mapLettersToIndexes(letters, options) ==
  IF letters = <<>> \/ options = <<>> \/ Len(options[1]) = 0 THEN <<>>
  ELSE keptIndexes({i \in {LetterIndex(toUpperCase(letters[1][k])) :
                             k \in 1..Len(letters[1])} :
                      inRange(i, Len(options[1]))})

\* /[^a-z0-9]+/g -> " " on a lower-case string
squash(l) ==
  ConcatAll([i \in 1..Len(l) |->
    IF Ch(l, i) \in LowerAlphaNum THEN Ch(l, i)
    ELSE IF i > 1 /\ Ch(l, i - 1) \notin LowerAlphaNum THEN "" ELSE " "])

\* norm of fuzzyMatchAnswerToOptions
fuzzyNorm(s) == trim(squash(toLowerCase(s)))

elements(ss) == {ss[k] : k \in 1..Len(ss)}

\* new Set(s.split(" "))
tokenSet(s) == elements(split(s, " "))

\* the acceptance threshold 0.35, in hundredths
FuzzyThresholdPct == 35

RECURSIVE fuzzyLoop(_, _, _, _, _, _)

\* a comparison that lets a later option of equal score replace the best one
compareScoreOrEqual(ans, options, i, bestIdx, num, den, inter, size) ==
  IF inter * den >= num * size
    THEN fuzzyLoop(ans, options, i + 1, i, inter, size)
    ELSE fuzzyLoop(ans, options, i + 1, bestIdx, num, den)

\* score = inter / size against bestScore = num / den
compareScore(ans, options, i, bestIdx, num, den, inter, size) ==
  IF inter * den > num * size
    THEN fuzzyLoop(ans, options, i + 1, i, inter, size)
    ELSE fuzzyLoop(ans, options, i + 1, bestIdx, num, den)

scoreOption(ans, options, i, bestIdx, num, den, o) ==
  IF o = "" THEN fuzzyLoop(ans, options, i + 1, bestIdx, num, den)
  ELSE compareScore(ans, options, i, bestIdx, num, den,
                    Cardinality(tokenSet(o) \cap tokenSet(ans)),
                    IF Cardinality(tokenSet(o)) > 1 THEN Cardinality(tokenSet(o)) ELSE 1)

\* the scoring loop: index i (0-based), bestIdx, bestScore as num / den
fuzzyLoop(ans, options, i, bestIdx, num, den) ==
  IF i >= Len(options) THEN [bestIdx |-> bestIdx, num |-> num, den |-> den]
  ELSE scoreOption(ans, options, i, bestIdx, num, den, fuzzyNorm(options[i + 1]))

\* bestScore >= 0.35 && bestIdx >= 0 ? [bestIdx] : undefined
accept(best) ==
  IF best.num * 100 >= FuzzyThresholdPct * best.den /\ best.bestIdx >= 0
    THEN <<<<best.bestIdx>>>>
    ELSE <<>>

fuzzyMatchAnswerToOptions(answer, options) ==
  IF answer = <<>> \/ answer = <<"">> \/ options = <<>> \/ Len(options[1]) = 0 THEN <<>>
  ELSE accept(fuzzyLoop(fuzzyNorm(answer[1]), options[1], 0, -1, 0, 1))

RECURSIVE lastBlock(_, _)
\* solMap.get(id) after the solMap.set loop: the last block with that id wins
lastBlock(solBlocks, id) ==
  IF solBlocks = <<>> THEN <<>>
  ELSE IF solBlocks[Len(solBlocks)].id = id
    THEN <<extractAnswerInfo(solBlocks[Len(solBlocks)].lines)>>
  ELSE lastBlock(SubSeq(solBlocks, 1, Len(solBlocks) - 1), id)

\* `${options[i]}`: an index outside the array reads undefined
optionText(options, i) ==
  IF i + 1 \in 1..Len(options) THEN options[i + 1] ELSE "undefined"

\* String.fromCharCode(65 + i) + ". " + options[i], joined by newlines
synthAnswer(correct, options) ==
  join([k \in 1..Len(correct) |->
          Ch(UpperAlpha, correct[k] + 1) \o ". " \o optionText(options, correct[k])], "\n")

\* a fallback that only covers a missing answer
needsFallbackMissingOnly(answer) == answer = <<>>

\* a fallback that only covers a missing or empty answer
needsFallbackEmptyOnly(answer) == answer = <<>> \/ Len(answer[1]) < 1

\* !answerText || answerText.length < 2
needsFallback(answer) == answer = <<>> \/ Len(answer[1]) < 2

\* a resolution that prefers the fuzzy match to the letters
resolveCorrectFuzzyFirst(byLetter, answer, options) ==
  IF fuzzyMatchAnswerToOptions(answer, options) # <<>>
    THEN fuzzyMatchAnswerToOptions(answer, options)
    ELSE byLetter

\* let correct = mapLettersToIndexes(...); if (!correct) correct = fuzzyMatch...
resolveCorrect(byLetter, answer, options) ==
  IF byLetter # <<>> THEN byLetter ELSE fuzzyMatchAnswerToOptions(answer, options)

\* the record returned by the callback of pdfItems.map
assemble(it, answer, notes, correct) ==
  [id |-> it.id, question |-> it.question, options |-> it.options,
   answer |-> IF needsFallback(answer) /\ correct # <<>> /\ it.options # <<>>
                 /\ Len(correct[1]) > 0
                THEN <<synthAnswer(correct[1], it.options[1])>>
                ELSE answer,
   notes |-> notes, correct |-> correct, type |-> it.type]

mergeFields(it, answer, notes, letters) ==
  assemble(it, answer, notes,
           resolveCorrect(mapLettersToIndexes(letters, it.options), answer, it.options))

\* s is solMap.get(it.id): <<info>> or <<>>
mergeWith(it, s) ==
  IF s = <<>> THEN mergeFields(it, <<>>, <<>>, <<>>)
  ELSE mergeFields(it, s[1].answer, s[1].notes, s[1].letters)

\* the callback of pdfItems.map in main
mergeItem(it, solBlocks) == mergeWith(it, lastBlock(solBlocks, it.id))

\* a merge that drops the questions without a solution block
mergeSolvedOnly(pdfItems, solBlocks) ==
  SelectSeq([i \in 1..Len(pdfItems) |-> mergeItem(pdfItems[i], solBlocks)],
            LAMBDA m : lastBlock(solBlocks, m.id) # <<>>)

merge(pdfItems, solBlocks) ==
  [i \in 1..Len(pdfItems) |-> mergeItem(pdfItems[i], solBlocks)]

(***************************************************************************)
(* Command line                                                            *)
(***************************************************************************)
\* out[key.slice(2)] = val, skipped when key does not start with "--"
setArg(out, key, val) ==
  IF Len(key) >= 2 /\ SubSeq(key, 1, 2) = "--"
    THEN [n \in DOMAIN out \cup {Drop(key, 2)} |-> IF n = Drop(key, 2) THEN val ELSE out[n]]
    ELSE out

RECURSIVE parseArgsLoop(_, _)
\* the loop of parseArgs over pairs (key, value); out maps an option name to
\* <<value>>, or to <<>> when the value is undefined
parseArgsLoop(args, out) ==
  IF args = <<>> THEN out
  ELSE parseArgsLoop(Drop(args, 2),
                     setArg(out, args[1], IF Len(args) >= 2 THEN <<args[2]>> ELSE <<>>))

\* the three options main reads start out undefined
parseArgs(args) == parseArgsLoop(args, [n \in {"pdf", "solutions", "output"} |-> <<>>])

\* a test that only catches an undefined option
missingArgUndefinedOnly(out, name) == out[name] = <<>>

\* !out[name] : the option is undefined or the empty string
missingArg(out, name) == out[name] = <<>> \/ out[name] = <<"">>

anyMissing(out) ==
  missingArg(out, "pdf") \/ missingArg(out, "solutions") \/ missingArg(out, "output")

\* the guard of the usage error in main
usageError(args) == anyMissing(parseArgs(args))

(***************************************************************************)
(* Inputs of a run                                                         *)
(***************************************************************************)
MaxPdfLines == 3

QuestionLines ==
  { "1] Select all that apply",
    "2. Pick (Choose two.)",
    "Topic 1 Question #0",
    "A. EBS",
    "B) S3 bucket" }

ExamplePdf == "5] Which service provides object storage?\nA. EBS\nB. S3\nC. EFS"

ExampleSolutions == "5] ans- B\nS3 is purpose-built object storage."

RECURSIVE textsOf(_, _)
\* the texts of 1..n lines drawn from ls
textsOf(ls, n) ==
  IF n <= 1 THEN ls
  ELSE ls \cup {t \o "\n" \o l : t \in textsOf(ls, n - 1), l \in ls}

PdfTexts ==
  textsOf(QuestionLines, MaxPdfLines)
  \cup { ExamplePdf,
         "junk\r\nTopic 2Question # 0031 \r\n\r\n Which  one?\r\n C.  EFS\n share",
         "3]Pick\nCHOOSE  Three\nB. S3 bucket\nA. EBS\nA. EBS volume",
         "1] Which?\nchoose all that apply\nA. EBS\nor choose two",
         "1] What?\nB) S3 bucket\n2. Pick (Choose two.)\nA. EBS",
         "1) What?\nA. EBS\nB. S3\n or S3 bucket\nTopic 4 Question #2\nWhy?\n\nA) EBS" }

SolutionTexts ==
  { ExampleSolutions,
    "",
    "1] ans- B",
    "1] ans- A\n2] Correct answers: A, B",
    "1] ans: S3 bucket",
    "1] the answer - EBS",
    "1] S3 bucket\nis best",
    "1] ans-\nB. S3 is right",
    "2] ans- J\r\n3] Answers: b\n31]\n efs share",
    "1] ans- A\n1] ans- B",
    "2] Answer: A and B",
    "1] S3 bucket\n2] Answer: A and B",
    "1] Answer: B (not EBS)\n2] EBS is best" }

ArgvChoices ==
  { <<"--pdf", "q.pdf", "--solutions", "s.txt", "--output", "out.json">>,
    <<"--output", "out.json", "x", "y", "--solutions", "s.txt", "--pdf">>,
    <<"--pdf", "q.pdf", "--solutions", "s.txt">>,
    <<"--pdf", "q.pdf", "--solutions", "s.txt", "--output">>,
    <<"--pdf", "q.pdf", "--output", "out.json">>,
    <<"--solutions", "s.txt", "--output", "out.json">>,
    <<"--pdf", "", "--solutions", "s.txt", "--output", "out.json">>,
    <<"pdf", "q.pdf", "--solutions", "s.txt", "--output", "out.json">>,
    <<>> }

(***************************************************************************)
(* main                                                                    *)
(***************************************************************************)
VARIABLES
  pc,        \* the position of main: "start", "readPdf", "readSolutions",
             \* "write", "done", "exited"
  argv,      \* process.argv.slice(2)
  debugPdf,  \* process.env.DEBUG_PDF is set
  pdfText,   \* <<text>> once the question source is decoded
  pdfItems,  \* the result of splitPdfIntoQuestions
  solRaw,    \* <<text>> once the solution source is read
  merged,    \* the merged items
  outFile,   \* <<document>> once the output document is written
  writes,    \* the number of writes of the output document
  debugFile, \* <<text>> once tmp/pdf.txt is written
  exitCode,  \* <<>> while running, <<code>> once the process has ended
  failure,   \* what ended the run: "none", "usage", "pdf", "debug",
             \* "solutions", "write"
  fzAnswer,  \* the answer argument of a call of fuzzyMatchAnswerToOptions
  fzOptions, \* its options argument
  fzResult,  \* <<>> before the call, <<what it returned>> after
  exLines,   \* the lines argument of a call of extractAnswerInfo
  exInfo,    \* <<>> before the call, <<what it returned>> after
  items,     \* the viewer's items: <<>> while null, <<list>> once fetched
  error,     \* the viewer's error: <<>> while null, <<message>> after a failed fetch
  index,     \* the viewer's index
  show,      \* the viewer's show
  selected,  \* the viewer's selected
  q          \* the viewer's search term

mainVars == <<pc, argv, debugPdf, pdfText, pdfItems, solRaw, merged, outFile, writes,
              debugFile, exitCode, failure>>

fuzzyVars == <<fzAnswer, fzOptions, fzResult>>

extractVars == <<exLines, exInfo>>

viewerVars == <<items, error, index, show, selected, q>>

vars == <<mainVars, fuzzyVars, extractVars, viewerVars>>

\* no call of fuzzyMatchAnswerToOptions outside main is under way
FuzzyIdle == fzAnswer = <<>> /\ fzOptions = <<>> /\ fzResult = <<>>

\* no call of extractAnswerInfo outside main is under way
ExtractIdle == exLines = <<>> /\ exInfo = <<>>

\* the state of App at its first render: useState(null), useState(0),
\* useState(false), useState([]), useState("")
ViewerIdle ==
  /\ items = <<>>
  /\ error = <<>>
  /\ index = 0
  /\ show = FALSE
  /\ selected = <<>>
  /\ q = ""

Init ==
  /\ pc = "start"
  /\ argv \in ArgvChoices
  /\ debugPdf \in BOOLEAN
  /\ pdfText = <<>>
  /\ pdfItems = <<>>
  /\ solRaw = <<>>
  /\ merged = <<>>
  /\ outFile = <<>>
  /\ writes = 0
  /\ debugFile = <<>>
  /\ exitCode = <<>>
  /\ failure = "none"
  /\ FuzzyIdle
  /\ ExtractIdle
  /\ ViewerIdle

\* process.exit(1), directly or from main().catch
Abort(why) ==
  /\ pc' = "exited"
  /\ exitCode' = <<1>>
  /\ failure' = why

\* a required option is missing: usage message, exit 1
UsageError ==
  /\ pc = "start"
  /\ usageError(argv)
  /\ Abort("usage")
  /\ UNCHANGED <<argv, debugPdf, pdfText, pdfItems, solRaw, merged, outFile, writes,
                 debugFile>>
  /\ UNCHANGED <<fuzzyVars, extractVars, viewerVars>>

ArgsOk ==
  /\ pc = "start"
  /\ ~usageError(argv)
  /\ pc' = "readPdf"
  /\ UNCHANGED <<argv, debugPdf, pdfText, pdfItems, solRaw, merged, outFile, writes,
                 debugFile, exitCode, failure>>
  /\ UNCHANGED <<fuzzyVars, extractVars, viewerVars>>

\* parsePdfText resolves; the optional debug dump; splitPdfIntoQuestions
ReadPdfOk ==
  /\ pc = "readPdf"
  /\ \E t \in PdfTexts :
       /\ pdfText' = <<t>>
       /\ debugFile' = IF debugPdf THEN <<t>> ELSE debugFile
       /\ pdfItems' = splitPdfIntoQuestions(t)
  /\ pc' = "readSolutions"
  /\ UNCHANGED <<argv, debugPdf, solRaw, merged, outFile, writes, exitCode, failure>>
  /\ UNCHANGED <<fuzzyVars, extractVars, viewerVars>>

\* readFileSync or pdf-parse throws
ReadPdfFail ==
  /\ pc = "readPdf"
  /\ Abort("pdf")
  /\ UNCHANGED <<argv, debugPdf, pdfText, pdfItems, solRaw, merged, outFile, writes,
                 debugFile>>
  /\ UNCHANGED <<fuzzyVars, extractVars, viewerVars>>

\* the question source is decoded but the debug dump cannot be written
DebugDumpFail ==
  /\ pc = "readPdf"
  /\ debugPdf
  /\ \E t \in PdfTexts : pdfText' = <<t>>
  /\ Abort("debug")
  /\ UNCHANGED <<argv, debugPdf, pdfItems, solRaw, merged, outFile, writes, debugFile>>
  /\ UNCHANGED <<fuzzyVars, extractVars, viewerVars>>

\* readFileSync(solPath) returns; splitSolutions, the solMap loop and the merge
ReadSolutionsOk ==
  /\ pc = "readSolutions"
  /\ \E t \in SolutionTexts :
       /\ solRaw' = <<t>>
       /\ merged' = merge(pdfItems, splitSolutions(t))
  /\ pc' = "write"
  /\ UNCHANGED <<argv, debugPdf, pdfText, pdfItems, outFile, writes, debugFile,
                 exitCode, failure>>
  /\ UNCHANGED <<fuzzyVars, extractVars, viewerVars>>

ReadSolutionsFail ==
  /\ pc = "readSolutions"
  /\ Abort("solutions")
  /\ UNCHANGED <<argv, debugPdf, pdfText, pdfItems, solRaw, merged, outFile, writes,
                 debugFile>>
  /\ UNCHANGED <<fuzzyVars, extractVars, viewerVars>>

\* mkdirSync and writeFileSync succeed; main returns
WriteOutput ==
  /\ pc = "write"
  /\ outFile' = <<merged>>
  /\ writes' = writes + 1
  /\ pc' = "done"
  /\ exitCode' = <<0>>
  /\ UNCHANGED <<argv, debugPdf, pdfText, pdfItems, solRaw, merged, debugFile, failure>>
  /\ UNCHANGED <<fuzzyVars, extractVars, viewerVars>>

\* mkdirSync or writeFileSync throws before the document exists
WriteFail ==
  /\ pc = "write"
  /\ Abort("write")
  /\ UNCHANGED <<argv, debugPdf, pdfText, pdfItems, solRaw, merged, outFile, writes,
                 debugFile>>
  /\ UNCHANGED <<fuzzyVars, extractVars, viewerVars>>

Next ==
  \/ UsageError
  \/ ArgsOk
  \/ ReadPdfOk
  \/ ReadPdfFail
  \/ DebugDumpFail
  \/ ReadSolutionsOk
  \/ ReadSolutionsFail
  \/ WriteOutput
  \/ WriteFail

Spec == Init /\ [][Next]_vars

(***************************************************************************)
(* fuzzyMatchAnswerToOptions called on its own                             *)
(***************************************************************************)
MaxOptions == 3

\* the answer argument: undefined, empty, or a text
FuzzyAnswers ==
  { <<>>, <<"">>, <<"--">>,
    <<"Amazon S3 bucket">>,
    <<"EBS">>,
    <<"the EFS share, or S3">>,
    <<"Bucket policy (S3)">> }

FuzzyOptionTexts ==
  { "EBS volume", "S3 bucket", "EFS share", "S3 bucket policy", "S3", "--" }

RECURSIVE listsOf(_, _)
\* the lists of at most n elements of xs
listsOf(xs, n) ==
  IF n = 0 THEN {<<>>}
  ELSE listsOf(xs, n - 1)
       \cup {Append(l, x) : l \in {m \in listsOf(xs, n - 1) : Len(m) = n - 1}, x \in xs}

\* the options argument: undefined, or a list
FuzzyOptions == {<<>>} \cup {<<l>> : l \in listsOf(FuzzyOptionTexts, MaxOptions)}

\* main has not been started
mainIdle ==
  /\ pc = "start"
  /\ argv = <<>>
  /\ debugPdf = FALSE
  /\ pdfText = <<>>
  /\ pdfItems = <<>>
  /\ solRaw = <<>>
  /\ merged = <<>>
  /\ outFile = <<>>
  /\ writes = 0
  /\ debugFile = <<>>
  /\ exitCode = <<>>
  /\ failure = "none"

FuzzyInit ==
  /\ mainIdle
  /\ fzAnswer \in FuzzyAnswers
  /\ fzOptions \in FuzzyOptions
  /\ fzResult = <<>>
  /\ ExtractIdle
  /\ ViewerIdle

\* the call returns
FuzzyCall ==
  /\ fzResult = <<>>
  /\ fzResult' = <<fuzzyMatchAnswerToOptions(fzAnswer, fzOptions)>>
  /\ UNCHANGED <<mainVars, fzAnswer, fzOptions, extractVars, viewerVars>>

FuzzyNext == FuzzyCall

FuzzySpec == FuzzyInit /\ [][FuzzyNext]_vars

(***************************************************************************)
(* extractAnswerInfo called on its own                                     *)
(***************************************************************************)
MaxBlockLines == 3

\* the lines a solution block is made of
BlockLines ==
  { "The answer: multi-AZ",
    "the answer - EBS",
    " so the Answer :  S3 bucket ",
    "A-B: the answer: C",
    "ans: B",
    "answer key",
    "see the notes",
    "B. S3 is right",
    "  Because it scales",
    "" }

\* the blocks splitSolutions builds: a trimmed first line, then raw lines
Blocks ==
  {b \in listsOf(BlockLines, MaxBlockLines) : Len(b) >= 1 /\ b[1] = trim(b[1])}

ExtractInit ==
  /\ mainIdle
  /\ FuzzyIdle
  /\ exLines \in Blocks
  /\ exInfo = <<>>
  /\ ViewerIdle

\* the call returns
ExtractCall ==
  /\ exInfo = <<>>
  /\ exInfo' = <<extractAnswerInfo(exLines)>>
  /\ UNCHANGED <<mainVars, fuzzyVars, exLines, viewerVars>>

ExtractNext == ExtractCall

ExtractSpec == ExtractInit /\ [][ExtractNext]_vars

(***************************************************************************)
(* The viewer: App and Options                                             *)
(***************************************************************************)
\* the documents /questions.json may hold
Documents ==
  { << [id |-> 1, question |-> "Which service stores objects?",
        answer |-> <<"B. S3">>, options |-> << <<"EBS", "S3", "EFS">> >>,
        type |-> <<"single">>],
       [id |-> 2, question |-> "Pick two file or block stores",
        answer |-> <<>>, options |-> << <<"EBS", "S3", "EFS">> >>,
        type |-> <<"multi">>],
       [id |-> 3, question |-> "Explain the S3 storage classes",
        answer |-> <<"Standard, IA, Glacier">>, options |-> <<>>, type |-> <<>>],
       [id |-> 4, question |-> "Is EBS zonal?",
        answer |-> <<"A. Yes">>, options |-> << <<"Yes", "No">> >>, type |-> <<>>] >>,
     << [id |-> 7, question |-> "Pick two",
        answer |-> <<"A. EBS\nB. S3">>, options |-> << <<"EBS", "S3">> >>,
        type |-> <<"multi">>] >>,
     << >> }

\* the values typed into the search box
SearchTerms == {"", "s3", " S3 ", "two", "zzz"}

\* String.prototype.includes
includes(s, sub) ==
  \E i \in 0..(Len(s) - Len(sub)) : SubSeq(s, i + 1, i + Len(sub)) = sub

\* the callback of items.filter
matches(it, term) ==
  \/ includes(toLowerCase(it.question), term)
  \/ it.answer # <<>> /\ includes(toLowerCase(it.answer[1]), term)

filterBy(list, term) ==
  IF term = "" THEN list ELSE SelectSeq(list, LAMBDA it : matches(it, term))

\* the useMemo of App
filtered == IF items = <<>> THEN <<>> ELSE filterBy(items[1], toLowerCase(trim(q)))

\* App renders the question view: no error, items fetched, some result
rendered == error = <<>> /\ items # <<>> /\ Len(filtered) > 0

\* App renders the search box
searchable == error = <<>> /\ items # <<>>

max(a, b) == IF a > b THEN a ELSE b

min(a, b) == IF a < b THEN a ELSE b

\* filtered[Math.max(0, Math.min(index, filtered.length - 1))]
current == filtered[max(0, min(index, Len(filtered) - 1)) + 1]

\* current.type ?? "single", the type handed to Options
currentType == IF current.type = <<>> THEN "single" ELSE current.type[1]

isSelected(i) == \E k \in 1..Len(selected) : selected[k] = i

\* toggle of Options
toggle(i, type) ==
  IF type = "single"
    THEN IF isSelected(i) THEN <<>> ELSE <<i>>
    ELSE IF isSelected(i) THEN SelectSeq(selected, LAMBDA x : x # i)
                          ELSE Append(selected, i)

ViewerInit ==
  /\ mainIdle
  /\ FuzzyIdle
  /\ ExtractIdle
  /\ ViewerIdle

\* fetch("/questions.json") resolves: setItems
Loaded ==
  /\ items = <<>>
  /\ error = <<>>
  /\ \E doc \in Documents : items' = <<doc>>
  /\ UNCHANGED <<mainVars, fuzzyVars, extractVars, error, index, show, selected, q>>

\* fetch or r.json() rejects: setError
LoadFailed ==
  /\ items = <<>>
  /\ error = <<>>
  /\ error' = <<"TypeError: Failed to fetch">>
  /\ UNCHANGED <<mainVars, fuzzyVars, extractVars, items, index, show, selected, q>>

\* the onClick of the Prev button
Prev ==
  /\ rendered
  /\ index' = max(0, index - 1)
  /\ selected' = <<>>
  /\ show' = FALSE
  /\ UNCHANGED <<mainVars, fuzzyVars, extractVars, items, error, q>>

\* the onClick of the Show / Hide Answer button
ToggleShow ==
  /\ rendered
  /\ show' = ~show
  /\ UNCHANGED <<mainVars, fuzzyVars, extractVars, items, error, index, selected, q>>

\* the onClick of the Next button
NextQuestion ==
  /\ rendered
  /\ index' = min(Len(filtered) - 1, index + 1)
  /\ selected' = <<>>
  /\ show' = FALSE
  /\ UNCHANGED <<mainVars, fuzzyVars, extractVars, items, error, q>>

\* the onClick of a Jump to button
JumpTo ==
  /\ rendered
  /\ \E idx \in 0..(Len(filtered) - 1) : index' = idx
  /\ show' = FALSE
  /\ UNCHANGED <<mainVars, fuzzyVars, extractVars, items, error, selected, q>>

\* the onChange of the search box, and the effect that depends on q
EditSearch ==
  /\ searchable
  /\ \E term \in SearchTerms : term # q /\ q' = term
  /\ index' = 0
  /\ show' = FALSE
  /\ selected' = <<>>
  /\ UNCHANGED <<mainVars, fuzzyVars, extractVars, items, error>>

\* the onClick of an option button
ToggleOption ==
  /\ rendered
  /\ current.options # <<>>
  /\ \E i \in 0..(Len(current.options[1]) - 1) : selected' = toggle(i, currentType)
  /\ UNCHANGED <<mainVars, fuzzyVars, extractVars, items, error, index, show, q>>

ViewerNext ==
  \/ Loaded
  \/ LoadFailed
  \/ Prev
  \/ ToggleShow
  \/ NextQuestion
  \/ JumpTo
  \/ EditSearch
  \/ ToggleOption

ViewerSpec == ViewerInit /\ [][ViewerNext]_vars

(***************************************************************************)
(* Properties of the output document                                       *)
(***************************************************************************)
\* the items of the written document
Out == outFile[1]

Written == outFile # <<>>

\* the blocks of the question source and of the solution source of this run
QBlocks == questionBlocks(pdfText[1])

SBlocks == splitSolutions(solRaw[1])

\* some solution block has this id
Solved(id) == \E k \in 1..Len(SBlocks) : SBlocks[k].id = id

\* the solution record the reconciler looks up for this id: <<info>> or <<>>
SolInfo(id) == lastBlock(SBlocks, id)

\* s contains sub, case-insensitively (sub is lower case)
ContainsCI(s, sub) == \E i \in 1..Len(s) : StartsWithCI(Drop(s, i - 1), sub)

StartsWith(s, sub) == Len(s) >= Len(sub) /\ SubSeq(s, 1, Len(sub)) = sub

Contains(s, sub) == \E i \in 1..Len(s) : StartsWith(Drop(s, i - 1), sub)

\* C1: no two items of the output array have the same id.
C1_UniqueIds ==
  Written => \A i, j \in 1..Len(Out) : i # j => Out[i].id # Out[j].id

\* C2: the output array is ordered ascending by id, whatever the order of the
\* question blocks in the question source.
C2_SortedById ==
  Written => \A i, j \in 1..Len(Out) : i < j => Out[i].id <= Out[j].id

\* a document of several items whose blocks were out of id order in the source
C2_Witness ==
  /\ Written
  /\ Len(Out) >= 2
  /\ \E i, j \in 1..Len(QBlocks) : i < j /\ QBlocks[i].id > QBlocks[j].id

\* C3: whenever correct is present, options is present and every index of
\* correct is within [0, length(options)), for letter mapping and fuzzy
\* matching alike.
C3_CorrectInRange ==
  Written =>
    \A i \in 1..Len(Out) :
      Out[i].correct # <<>> =>
        /\ Out[i].options # <<>>
        /\ \A k \in 1..Len(Out[i].correct[1]) :
             /\ Out[i].correct[1][k] >= 0
             /\ Out[i].correct[1][k] < Len(Out[i].options[1])

\* correct was resolved although the solution names no letter
ResolvedByFuzzy(it) ==
  it.correct # <<>> /\ SolInfo(it.id) # <<>> /\ SolInfo(it.id)[1].letters = <<>>

\* correct was resolved from letters of which one is beyond the options
ResolvedByLettersSomeDropped(it) ==
  /\ it.correct # <<>> /\ SolInfo(it.id) # <<>> /\ SolInfo(it.id)[1].letters # <<>>
  /\ \E k \in 1..Len(SolInfo(it.id)[1].letters[1]) :
       LetterIndex(SolInfo(it.id)[1].letters[1][k]) >= Len(it.options[1])

\* one document with an item resolved by fuzzy matching and an item resolved
\* by letters, an out-of-range letter having been dropped
C3_Witness ==
  /\ Written
  /\ \E i \in 1..Len(Out) : ResolvedByFuzzy(Out[i])
  /\ \E i \in 1..Len(Out) : ResolvedByLettersSomeDropped(Out[i])

\* C4: every question record of the segmenter is emitted as exactly one output
\* item, whatever the solution source contains; an item whose id has no
\* solution block has answer, notes and correct absent.
C4_EveryQuestionEmitted ==
  Written =>
    /\ Len(Out) = Len(QBlocks)
    /\ Len(Out) = Len(pdfItems)
    /\ \A i \in 1..Len(Out) :
         /\ Out[i].id = pdfItems[i].id
         /\ Out[i].question = pdfItems[i].question
         /\ Out[i].options = pdfItems[i].options
         /\ Out[i].type = pdfItems[i].type
         /\ ~Solved(Out[i].id) =>
              Out[i].answer = <<>> /\ Out[i].notes = <<>> /\ Out[i].correct = <<>>

\* a document with an unsolved question that has options, next to a solved one
C4_Witness ==
  /\ Written
  /\ \E i \in 1..Len(Out) : ~Solved(Out[i].id) /\ Out[i].options # <<>>
  /\ \E i \in 1..Len(Out) : Solved(Out[i].id)

\* the run on the example of the testable properties
ExampleRun == Written /\ pdfText = <<ExamplePdf>> /\ solRaw = <<ExampleSolutions>>

ExampleItem(answer) ==
  /\ Len(Out) = 1
  /\ Out[1].id = 5
  /\ Out[1].options = <<<<"EBS", "S3", "EFS">>>>
  /\ Out[1].correct = <<<<1>>>>
  /\ Out[1].type = "single"
  /\ Out[1].answer = <<answer>>
  /\ Out[1].notes # <<>>
  /\ Contains(Out[1].notes[1], "purpose-built object storage")

\* C5 as stated: on the example the pipeline outputs one item with id 5,
\* options [EBS, S3, EFS], correct [1], type single, answer "B" and notes
\* containing "purpose-built object storage".
C5_Original == ExampleRun => ExampleItem("B")

\* C5 as amended: the same item, with answer "B. S3" (the one-character answer
\* is replaced by the synthesized one).
C5_Amended == ExampleRun => ExampleItem("B. S3")

C5_Witness == ExampleRun /\ pc = "done"

\* C6 as stated: type is "multi" when the question text contains "choose two",
\* "choose three" or "select all that apply" (case-insensitively), with or
\* without a solution block, and "single" when it contains none of them.
C6_Original ==
  Written =>
    \A i \in 1..Len(Out) :
      Out[i].type = IF \/ ContainsCI(Out[i].question, "choose two")
                       \/ ContainsCI(Out[i].question, "choose three")
                       \/ ContainsCI(Out[i].question, "select all that apply")
                      THEN "multi" ELSE "single"

\* C6 as amended: type is "multi" when the question text contains "choose"
\* followed by "two", "three" or "all that apply", and "single" otherwise;
\* "select all that apply" does not make a question multi.
C6_Amended ==
  Written =>
    \A i \in 1..Len(Out) :
      Out[i].type = IF \/ ContainsCI(Out[i].question, "choose two")
                       \/ ContainsCI(Out[i].question, "choose three")
                       \/ ContainsCI(Out[i].question, "choose all that apply")
                      THEN "multi" ELSE "single"

\* a document with an unsolved "choose two" question and a "select all that
\* apply" question
C6_Witness ==
  /\ Written
  /\ \E i \in 1..Len(Out) :
       ContainsCI(Out[i].question, "choose two") /\ ~Solved(Out[i].id)
  /\ \E i \in 1..Len(Out) : ContainsCI(Out[i].question, "select all that apply")

\* C7: options[i] is the text of the option line labelled with the (i+1)-th
\* letter of A..J, for any sequence of labelled option lines.
C7_OptionsInLetterOrder ==
  Written =>
    \A i \in 1..Len(Out) :
      Out[i].options # <<>> =>
        \A k \in 1..Len(Out[i].options[1]) :
          \E b \in 1..Len(QBlocks) :
            /\ QBlocks[b].id = Out[i].id
            /\ \E l \in 1..Len(QBlocks[b].lines) :
                 /\ extractOptionLabel(QBlocks[b].lines[l]) = <<Ch(UpperAlpha, k)>>
                 /\ StartsWith(Out[i].options[1][k],
                               Drop(QBlocks[b].lines[l],
                                    OptionPrefixLen(QBlocks[b].lines[l])))

\* the textual answer of the solution for this id: <<answer>> or <<>>
SolAnswer(id) == IF SolInfo(id) = <<>> THEN <<>> ELSE SolInfo(id)[1].answer

\* text is the lines "<Letter>. <option text>" of the indexes of correct
ListsCorrectOptions(text, correct, options) ==
  /\ Len(split(text, "\n")) = Len(correct)
  /\ \A k \in 1..Len(correct) :
       split(text, "\n")[k] = Ch(UpperAlpha, correct[k] + 1) \o ". " \o options[correct[k] + 1]

\* the answer of item it against sol, the textual answer of its solution
AnswerNotTrivial(it, sol) ==
  /\ it.answer # <<>>
  /\ Len(it.answer[1]) >= 2
  /\ IF sol = <<>> \/ Len(sol[1]) < 2
       THEN ListsCorrectOptions(it.answer[1], it.correct[1], it.options[1])
       ELSE it.answer = sol

\* C8: an item with options and a non-empty correct has an answer of at least
\* 2 characters: the list of its correct options when the solution's answer is
\* missing or shorter than 2 characters, the solution's answer otherwise.
C8_AnswerNotTrivial ==
  Written =>
    \A i \in 1..Len(Out) :
      (Out[i].options # <<>> /\ Out[i].correct # <<>> /\ Len(Out[i].correct[1]) > 0) =>
        AnswerNotTrivial(Out[i], SolAnswer(Out[i].id))

\* a document with a one-character solution answer replaced by the list of
\* two correct options
C8_Witness ==
  /\ Written
  /\ \E i \in 1..Len(Out) :
       /\ Out[i].correct # <<>> /\ Len(Out[i].correct[1]) >= 1
       /\ SolAnswer(Out[i].id) # <<>> /\ Len(SolAnswer(Out[i].id)[1]) = 1
  /\ \E i \in 1..Len(Out) :
       Out[i].correct # <<>> /\ Len(SolAnswer(Out[i].id)[1]) >= 2

\* the option --name is given on the command line with a non-empty value
Given(name) ==
  \E i \in 1..(Len(argv) - 1) :
    i % 2 = 1 /\ argv[i] = "--" \o name /\ argv[i + 1] # ""

AllGiven == Given("pdf") /\ Given("solutions") /\ Given("output")

\* C9: the output document is written at most once and only after argument
\* validation, question-source decoding and solution-source reading have
\* succeeded; a run ended by a usage error or a source read failure has
\* written no output document and exits non-zero.
C9_WriteOnlyAfterInputs ==
  /\ writes <= 1
  /\ (writes = 0) = (outFile = <<>>)
  /\ writes = 1 => AllGiven /\ pdfText # <<>> /\ solRaw # <<>>
  /\ (pc # "start" /\ ~AllGiven) => failure = "usage"
  /\ failure \in {"usage", "pdf", "solutions"} =>
       pc = "exited" /\ writes = 0 /\ exitCode = <<1>>

\* a run that decoded the question source and then failed to read the
\* solution source
C9_Witness ==
  pc = "exited" /\ failure = "solutions" /\ pdfText # <<>> /\ outFile = <<>>

\* C10: every output item's id is a positive integer, for blocks started by a
\* topic header as well as by a leading-integer line.
C10_PositiveIds ==
  Written => \A i \in 1..Len(Out) : Out[i].id >= 1

\* the in-range option indexes named by the letters of solution record s
\* (letter number i of the alphabet, counted from 0, names index i)
LetterIdxs(s, options) ==
  IF s = <<>> \/ s[1].letters = <<>> \/ options = <<>> THEN {}
  ELSE {i \in 0..(Len(options[1]) - 1) :
          Ch(UpperAlpha, i + 1) \in elements(s[1].letters[1])}

\* c lists exactly the indexes of idxs, ascending and without duplicates
ListsAscending(c, idxs) ==
  /\ c # <<>>
  /\ elements(c[1]) = idxs
  /\ \A k \in 1..(Len(c[1]) - 1) : c[1][k] < c[1][k + 1]

\* the textual answer of solution record s: <<answer>> or <<>>
AnswerOf(s) == IF s = <<>> THEN <<>> ELSE s[1].answer

\* correct of item it against idxs, the indexes its solution's letters name,
\* and answer, the textual answer of its solution
LettersFirst(it, idxs, answer) ==
  IF idxs # {} THEN ListsAscending(it.correct, idxs)
  ELSE it.correct = fuzzyMatchAnswerToOptions(answer, it.options)

\* correct of item it against its solution record s
ResolvedFrom(it, s) == LettersFirst(it, LetterIdxs(s, it.options), AnswerOf(s))

\* C11: when the letters of the solution name at least one in-range option,
\* correct is exactly the set of those indexes, ascending and without
\* duplicates, whatever the fuzzy match of the answer text would give; otherwise
\* correct is the fuzzy match of the answer text, absent when that gives nothing.
C11_LettersBeforeFuzzy ==
  Written =>
    \A i \in 1..Len(Out) : ResolvedFrom(Out[i], SolInfo(Out[i].id))

\* the letters and the answer text of the solution of item it name different
\* options
LettersAndFuzzyDisagree(it, s) ==
  /\ LetterIdxs(s, it.options) # {}
  /\ fuzzyMatchAnswerToOptions(AnswerOf(s), it.options) # <<>>
  /\ fuzzyMatchAnswerToOptions(AnswerOf(s), it.options) # it.correct

\* one document with an item whose letters and answer text disagree, an item
\* resolved by the fuzzy match for want of letters, and an item with options
\* and a solution for which neither gives anything
C11_Witness ==
  /\ Written
  /\ \E i \in 1..Len(Out) : LettersAndFuzzyDisagree(Out[i], SolInfo(Out[i].id))
  /\ \E i \in 1..Len(Out) :
       LetterIdxs(SolInfo(Out[i].id), Out[i].options) = {} /\ Out[i].correct # <<>>

\* the words of a text: the maximal runs of letters and digits, in lower case
words(s) == tokenSet(fuzzyNorm(s)) \ {""}

\* the number of words of option o that occur among the words of the answer
overlap(ans, o) == Cardinality(words(o) \cap words(ans))

\* the number of words of option o, 1 for an option without words
size(o) == IF words(o) = {} THEN 1 ELSE Cardinality(words(o))

\* option number i (from 1) is the first to attain the maximum of the scores
\* num[j] / den[j]
FirstBest(i, num, den) ==
  /\ \A j \in 1..Len(num) : num[j] * den[i] <= num[i] * den[j]
  /\ \A j \in 1..(i - 1) : num[j] * den[i] < num[i] * den[j]

\* result r against the scores num[j] / den[j] of the options: the index (from
\* 0) of the first best option when some score is at least 0.35, nothing
\* otherwise
PicksFirstBest(r, num, den) ==
  IF \E j \in 1..Len(num) : 100 * num[j] >= 35 * den[j]
    THEN \E i \in 1..Len(num) : FirstBest(i, num, den) /\ r = <<<<i - 1>>>>
    ELSE r = <<>>

\* result r of the call on answer text ans and the option list opts
FuzzyAgrees(r, ans, opts) ==
  PicksFirstBest(r, [j \in 1..Len(opts) |-> overlap(ans, opts[j])],
                    [j \in 1..Len(opts) |-> size(opts[j])])

\* the text of an optional argument, empty when it is undefined
textOf(a) == IF a = <<>> THEN "" ELSE a[1]

\* C12: fuzzyMatchAnswerToOptions scores each option as the number of its
\* words that occur among the words of the answer over the number of its
\* words, and returns the index of the first option of maximum score exactly
\* when that score is at least 0.35, nothing otherwise; "Amazon S3 bucket"
\* against "EBS volume", "S3 bucket", "EFS share" gives index 1.
C12_FuzzyFirstBest ==
  fzResult # <<>> =>
    /\ FuzzyAgrees(fzResult[1], textOf(fzAnswer), IF fzOptions = <<>> THEN <<>> ELSE fzOptions[1])
    /\ (fzAnswer = <<"Amazon S3 bucket">>
         /\ fzOptions = << <<"EBS volume", "S3 bucket", "EFS share">> >>)
          => fzResult[1] = << <<1>> >>

\* the call on the example has returned
C12_Witness ==
  /\ fzAnswer = <<"Amazon S3 bucket">>
  /\ fzOptions = << <<"EBS volume", "S3 bucket", "EFS share">> >>
  /\ fzResult = << << <<1>> >> >>

\* no line of the block starts with an answer indicator and some line has an
\* inline "answer" followed by ":" or "-"
InlineCase(lines) ==
  /\ \A k \in 1..Len(lines) : indicatorLen(trim(lines[k])) = 0
  /\ \E k \in 1..Len(lines) : inlineAnswer(lines[k])

\* "answer", blanks and ":" or "-" start at index i of l
AnswerSepAt(l, i) ==
  StartsWithCI(Drop(l, i - 1), "answer") /\ SepFollows(Drop(l, i - 1), 6)

\* the first index of l where "answer", blanks and ":" or "-" start
FirstAnswerSep(l) ==
  CHOOSE i \in 1..Len(l) : AnswerSepAt(l, i) /\ \A j \in 1..(i - 1) : ~AnswerSepAt(l, j)

\* the text of l after the separator of its first "answer:" or "answer-", up
\* to the end of the line
AfterAnswerSep(l) == Tail(SkipSet(Drop(l, FirstAnswerSep(l) + 5), WS))

\* notes is the normalized text n, absent when n is empty
NotesAre(notes, n) == IF n = "" THEN notes = <<>> ELSE notes = <<n>>

\* info takes its answer and notes from the inline line k of lines
TakenFromInline(info, lines, k) ==
  /\ inlineAnswer(lines[k])
  /\ info.answer = <<normalizeTextBlock(AfterAnswerSep(lines[k]))>>
  /\ NotesAre(info.notes, normalizeTextBlock(join(SubSeq(lines, k + 1, Len(lines)), "\n")))

\* C13: when no line of the block starts with an answer indicator and some
\* line has an inline "answer" followed by ":" or "-", the answer is the
\* normalized text of that line after the first such separator, up to the end
\* of the line, and notes is the normalized remainder of the block after it.
C13_InlineAnswer ==
  (exInfo # <<>> /\ InlineCase(exLines)) =>
    \E k \in 1..Len(exLines) : TakenFromInline(exInfo[1], exLines, k)

\* the id of the question list shows for index idx, <<>> for an empty list
idAt(list, idx) ==
  IF Len(list) > 0 THEN <<list[max(0, min(idx, Len(list) - 1)) + 1].id>> ELSE <<>>

\* the id of the question on display for these values of items, error, index
\* and q, <<>> when no question is on display
shownId(its, err, idx, term) ==
  IF err = <<>> /\ its # <<>>
    THEN idAt(filterBy(its[1], toLowerCase(trim(term))), idx)
    ELSE <<>>

\* a step that changes the question on display leaves the answer hidden and
\* the selection empty
ResetsOnChange ==
  shownId(items', error', index', q') # shownId(items, error, index, q)
    => (show' = FALSE /\ selected' = <<>>)

\* a question of type "single" on display has at most one selected option
SingleHasOneSelection == (rendered /\ currentType = "single") => Len(selected) <= 1

\* C14: after any action of the viewer that changes which question is
\* displayed the answer is hidden and the selection is empty, and a question of
\* type "single" never has more than one selected option.
C14_SelectionResetOnChange == [][ResetsOnChange]_vars /\ []SingleHasOneSelection

====
